---- MODULE Spec2Model ----
(***************************************************************************)
(* Model of CornellTechElectiveChecker (src/main.py) and of the field      *)
(* fallback of src/getclasses.py.                                          *)
(*                                                                         *)
(* The recursive method is_tech_elective is modelled as an explicit call   *)
(* stack: one frame per active call, holding the call's arguments          *)
(* (course, visited, depth), the prerequisites its for-loop has not yet    *)
(* iterated, and its position.  The remote catalog is a function from a    *)
(* parsed course key to the record the API returns for it (abstracted to   *)
(* the prerequisite set that _extract_prerequisites reads from it), or     *)
(* None when the API lists no such course.                                 *)
(***************************************************************************)
EXTENDS Integers, Sequences, FiniteSets, TLC

VARIABLES
    catalog,                  \* remote API content: key -> prerequisite set, or None
    acceptable_prerequisites, \* self.acceptable_prerequisites
    cache,                    \* self.cache, as the set of cached keys
    course,                   \* argument of the top-level is_tech_elective call
    max_depth,                \* argument max_depth of the top-level call
    stack,                    \* active is_tech_elective calls, innermost last
    ret,                      \* value returned by the call that just ended
    result,                   \* verdict of the top-level call
    calls,                    \* number of is_tech_elective calls entered
    fetched,                  \* keys _fetch_course_data has been called with
    raised,                   \* TRUE once a request has raised in this query
    failuresLeft,             \* requests that may still raise
    frontier,                 \* explicit frontier of <<identifier, depth>> pairs
    fvisited,                 \* the frontier traversal's one Visited Set
    fresult,                  \* verdict of the frontier traversal
    order,                    \* "stack" or "queue": how the frontier is processed
    courses,                  \* argument of check_courses_to_json
    idx,                      \* courses of the batch already checked
    run,                      \* batch runs started on this checker
    results,                  \* per run, the dictionary check_multiple_courses fills
    check_output,             \* per run, what check_multiple_courses returned
    output,                   \* per run, what check_courses_to_json returned
    bpc,                      \* position of the batch
    failuresAtStart,          \* failuresLeft when the batch's current query began
    roster,                   \* argument roster of _extract_prerequisites
    course_data,              \* argument course_data of _extract_prerequisites
    prereq_text,              \* the text _extract_prerequisites selected
    prerequisites,            \* the set _extract_prerequisites returned
    epc,                      \* position of the extraction
    listed,                   \* the "prerequisites" entry getclasses.py emits
    gpc                       \* position of getclasses.py on the record

queryVars == <<cache, course, max_depth, stack, ret, result, calls, fetched,
               raised, failuresLeft>>
envVars == <<catalog, acceptable_prerequisites>>
frontierVars == <<frontier, fvisited, fresult, order>>
batchVars == <<courses, idx, run, results, check_output, output, bpc, failuresAtStart>>
extractVars == <<roster, course_data, prereq_text, prerequisites, epc, listed, gpc>>
others == <<frontierVars, batchVars, extractVars>>

vars == <<envVars, queryVars, frontierVars, batchVars, extractVars>>

None == "None"

(***************************************************************************)
(* Bounds of the model.                                                    *)
(***************************************************************************)
MaxDepthLimit == 3
MaxFailures == 1
MaxEdges == 4

\* Course codes of the small catalog; "a" is "A" in lower case and "?" is a
\* string _parse_course_code cannot parse.
Courses == {"A", "B", "C"}
LowerCase == {"a"}
Unparseable == {"?"}

(***************************************************************************)
(* Pure helpers of the checker.                                            *)
(***************************************************************************)
\* str.upper() on the model's course codes.
Upper(c) == IF c = "a" THEN "A" ELSE c

\* _parse_course_code: the (subject, number) key, or None when re.match fails.
ParseCourseCode(c) == IF c \in Unparseable THEN None ELSE Upper(c)

\* Off by one: the call at depth max_depth is cut off as well.
DepthExceededOffByOne(depth, maxd) == depth >= maxd

\* line 144: if depth > max_depth
DepthExceeded(depth, maxd) == depth > maxd

\* The whitelist test made only for prerequisites, not for the queried course.
IsAcceptableBelowTop(c) ==
    /\ Len(stack) > 1
    /\ \E p \in acceptable_prerequisites : Upper(p) = Upper(c)

\* line 148: course.upper() in (p.upper() for p in self.acceptable_prerequisites)
IsAcceptable(c) == \E p \in acceptable_prerequisites : Upper(p) = Upper(c)

\* line 152: if course in visited
InVisited(c, visited) == c \in visited

\* line 172: visited.copy(), the callee's own set
CopyVisited(visited) == visited

\* What the API holds for a key: a record with its prerequisites, or no record.
NoData == [found |-> FALSE, prereqs |-> {}]
Data(prereqs) == [found |-> TRUE, prereqs |-> prereqs]

\* The API's answer for a key (lines 75-82): its record, or None.
Lookup(key) == IF key \in DOMAIN catalog THEN catalog[key] ELSE NoData

\* Python's True and False as returned values; None is "no value yet".
Bool(b) == IF b THEN "True" ELSE "False"

\* Without the handler the exception leaves is_tech_elective.
RequestRaisedPropagates == "Error"

\* Lines 84-86 and 164-165: a request that raises is caught, _fetch_course_data
\* returns None and the call returns False.
RequestRaisedOutcome == "False"

\* "return self.is_tech_elective(...)" inside the loop: the first prerequisite
\* decides.
AfterCallFirstDecides(r) == "return"

\* Lines 172-173: what the for-loop does with a recursive call's value.
AfterCall(r) == IF r = "True" THEN "return" ELSE "continue"

Frame(c, visited, depth) ==
    [course |-> c, visited |-> visited, depth |-> depth, pending |-> {}, pc |-> "entry"]

Top == stack[Len(stack)]
Pop == SubSeq(stack, 1, Len(stack) - 1)
ReplaceTop(f) == [stack EXCEPT ![Len(stack)] = f]

(***************************************************************************)
(* is_tech_elective, lines 140-160: the checks before any course data is   *)
(* fetched.  "False" and "True" are returns, "fetch" goes on to line 163.   *)
(***************************************************************************)
\* The whitelist test made before the depth guard.
EntryOutcomeWhitelistFirst(c, visited, depth) ==
    IF IsAcceptable(c) THEN "True"
    ELSE IF DepthExceeded(depth, max_depth) THEN "False"
    ELSE IF InVisited(c, visited) THEN "False"
    ELSE IF ParseCourseCode(c) = None THEN "False"
    ELSE "fetch"

\* The cycle guard answering True.
EntryOutcomeCycleTrue(c, visited, depth) ==
    IF DepthExceeded(depth, max_depth) THEN "False"
    ELSE IF IsAcceptable(c) THEN "True"
    ELSE IF InVisited(c, visited) THEN "True"
    ELSE IF ParseCourseCode(c) = None THEN "False"
    ELSE "fetch"

EntryOutcome(c, visited, depth) ==
    IF DepthExceeded(depth, max_depth) THEN "False"
    ELSE IF IsAcceptable(c) THEN "True"
    ELSE IF InVisited(c, visited) THEN "False"
    ELSE IF ParseCourseCode(c) = None THEN "False"
    ELSE "fetch"

\* Lines 140-160 of a call that returns before fetching.
EnterReturn ==
    /\ stack # <<>>
    /\ Top.pc = "entry"
    /\ ret = None
    /\ EntryOutcome(Top.course, Top.visited, Top.depth) # "fetch"
    /\ ret' = EntryOutcome(Top.course, Top.visited, Top.depth)
    /\ stack' = Pop
    /\ calls' = calls + 1
    /\ UNCHANGED <<others, catalog, acceptable_prerequisites, cache, course, max_depth,
                   result, fetched, raised, failuresLeft>>

\* Lines 140-168 of a call whose _fetch_course_data returns without raising
\* inside: a cache hit, or a request that is answered and cached (lines 56-82).
\* No data: return False (line 165); data: the for-loop starts on its
\* prerequisites (line 171).
EnterFetch ==
    /\ stack # <<>>
    /\ Top.pc = "entry"
    /\ ret = None
    /\ EntryOutcome(Top.course, Top.visited, Top.depth) = "fetch"
    /\ LET key == ParseCourseCode(Top.course)
           data == Lookup(key)
           visited == Top.visited \cup {Top.course}
       IN /\ cache' = cache \cup {key}
          /\ fetched' = fetched \cup {key}
          /\ IF ~data.found
             THEN /\ ret' = "False"
                  /\ stack' = Pop
             ELSE /\ ret' = None
                  /\ stack' = ReplaceTop([Top EXCEPT !.visited = visited,
                                                     !.pending = data.prereqs,
                                                     !.pc = "loop"])
    /\ calls' = calls + 1
    /\ UNCHANGED <<others, catalog, acceptable_prerequisites, course, max_depth,
                   result, raised, failuresLeft>>

\* Lines 140-165 of a call whose request raises (lines 84-86): the handler
\* prints, returns None without caching, and the call returns False.
EnterFetchRaises ==
    /\ stack # <<>>
    /\ Top.pc = "entry"
    /\ ret = None
    /\ EntryOutcome(Top.course, Top.visited, Top.depth) = "fetch"
    /\ ParseCourseCode(Top.course) \notin cache
    /\ failuresLeft > 0
    /\ failuresLeft' = failuresLeft - 1
    /\ raised' = TRUE
    /\ fetched' = fetched \cup {ParseCourseCode(Top.course)}
    /\ ret' = RequestRaisedOutcome
    /\ stack' = Pop
    /\ calls' = calls + 1
    /\ UNCHANGED <<others, catalog, acceptable_prerequisites, cache, course, max_depth, result>>

\* Lines 171-172: the for-loop takes the next prerequisite, in whatever order
\* the set iterates, and calls is_tech_elective on it.
LoopCall ==
    /\ stack # <<>>
    /\ Top.pc = "loop"
    /\ ret = None
    /\ \E prereq \in Top.pending :
         stack' = Append(ReplaceTop([Top EXCEPT !.pending = @ \ {prereq}]),
                         Frame(prereq, CopyVisited(Top.visited), Top.depth + 1))
    /\ UNCHANGED <<others, catalog, acceptable_prerequisites, cache, course, max_depth,
                   ret, result, calls, fetched, raised, failuresLeft>>

\* Line 175: the for-loop is exhausted, return False.
LoopExhausted ==
    /\ stack # <<>>
    /\ Top.pc = "loop"
    /\ ret = None
    /\ Top.pending = {}
    /\ ret' = "False"
    /\ stack' = Pop
    /\ UNCHANGED <<others, catalog, acceptable_prerequisites, cache, course, max_depth,
                   result, calls, fetched, raised, failuresLeft>>

\* Lines 172-173: the recursive call returned; True returns True, False goes
\* on with the loop.  An exception leaving the callee would leave this call too.
LoopResume ==
    /\ stack # <<>>
    /\ Top.pc = "loop"
    /\ ret # None
    /\ IF ret \notin {"True", "False"} \/ AfterCall(ret) = "return"
       THEN /\ stack' = Pop
            /\ ret' = ret
       ELSE /\ stack' = stack
            /\ ret' = None
    /\ UNCHANGED <<others, catalog, acceptable_prerequisites, cache, course, max_depth,
                   result, calls, fetched, raised, failuresLeft>>

\* The top-level call returns its verdict to its caller.
TopReturn ==
    /\ stack = <<>>
    /\ ret # None
    /\ result = None
    /\ result' = ret
    /\ ret' = None
    /\ UNCHANGED <<others, catalog, acceptable_prerequisites, cache, course, max_depth,
                   stack, calls, fetched, raised, failuresLeft>>

(***************************************************************************)
(* A single top-level query is_tech_elective(course, max_depth=m) on a     *)
(* fresh checker.  The catalogs are closed under renaming the courses, so  *)
(* the queried course is "A", in either letter case, or a string that does *)
(* not parse; and a query never requests the record of a course it cannot  *)
(* reach, so the catalog holds no record for those.  A catalog holds at    *)
(* most MaxEdges prerequisite edges.                                       *)
(***************************************************************************)
\* The courses on some prerequisite path of at most k edges from c in g.
RECURSIVE DescendantsIn(_, _, _)
DescendantsIn(g, c, k) ==
    IF k = 0 \/ c \notin DOMAIN g THEN {c}
    ELSE {c} \cup UNION {DescendantsIn(g, p, k - 1) : p \in g[c].prereqs}

ReachableIn(g, c) == DescendantsIn(g, c, Cardinality(DOMAIN g))

RECURSIVE SumOver(_, _)
SumOver(f, S) ==
    IF S = {} THEN 0
    ELSE LET x == CHOOSE y \in S : TRUE IN f[x] + SumOver(f, S \ {x})

EdgeCount(g) == SumOver([c \in DOMAIN g |-> Cardinality(g[c].prereqs)], DOMAIN g)

Catalogs(U) == [U -> {Data(P) : P \in SUBSET U} \cup {NoData}]

CatalogsFor(U, c) ==
    {g \in Catalogs(U) :
       /\ EdgeCount(g) <= MaxEdges
       /\ \A x \in U \ ReachableIn(g, ParseCourseCode(c)) : g[x] = NoData}

QueryCourses == {"A"} \cup LowerCase \cup Unparseable

FrontierIdle ==
    /\ frontier = <<>>
    /\ fvisited = {}
    /\ fresult = None
    /\ order = None

BatchIdle ==
    /\ courses = <<>>
    /\ idx = 0
    /\ run = 0
    /\ results = <<>>
    /\ check_output = <<>>
    /\ output = <<>>
    /\ bpc = "idle"
    /\ failuresAtStart = MaxFailures

ExtractIdle ==
    /\ roster = None
    /\ course_data = None
    /\ prereq_text = None
    /\ prerequisites = {}
    /\ epc = "idle"
    /\ listed = None
    /\ gpc = "idle"

\* The state of a checker on which is_tech_elective(c, max_depth=m) was called.
QueryStarts(c, m) ==
    /\ course = c
    /\ max_depth = m
    /\ stack = <<Frame(c, {}, 0)>>
    /\ ret = None
    /\ result = None
    /\ calls = 0
    /\ fetched = {}
    /\ raised = FALSE

Init ==
    /\ \E c \in QueryCourses, m \in 0..MaxDepthLimit : QueryStarts(c, m)
    /\ catalog \in CatalogsFor(Courses, course)
    /\ acceptable_prerequisites \in SUBSET (Courses \cup LowerCase)
    /\ cache = {}
    /\ failuresLeft = MaxFailures
    /\ FrontierIdle
    /\ BatchIdle
    /\ ExtractIdle

Next ==
    \/ EnterReturn
    \/ EnterFetch
    \/ EnterFetchRaises
    \/ LoopCall
    \/ LoopExhausted
    \/ LoopResume
    \/ TopReturn

Spec == Init /\ [][Next]_vars

Done == result # None

(***************************************************************************)
(* Queries over prerequisite graphs of four courses with data, no request  *)
(* raising.  The family of graphs is closed under renaming the courses, so *)
(* the queried course is fixed; and a query never requests the record of a *)
(* course it cannot reach, so those records are left without               *)
(* prerequisites.                                                          *)
(***************************************************************************)
GraphCourses == {"A", "B", "C", "D"}
Graphs == {g \in [GraphCourses -> {Data(P) : P \in SUBSET GraphCourses}] :
             /\ EdgeCount(g) <= MaxEdges
             /\ \A c \in GraphCourses \ ReachableIn(g, "A") : g[c].prereqs = {}}

InitGraph ==
    /\ catalog \in Graphs
    /\ acceptable_prerequisites \in SUBSET GraphCourses
    /\ cache = {}
    /\ \E m \in 0..MaxDepthLimit : QueryStarts("A", m)
    /\ failuresLeft = 0
    /\ FrontierIdle
    /\ BatchIdle
    /\ ExtractIdle

NextGraph ==
    \/ EnterReturn
    \/ EnterFetch
    \/ LoopCall
    \/ LoopExhausted
    \/ LoopResume
    \/ TopReturn

SpecGraph == InitGraph /\ [][NextGraph]_vars

(***************************************************************************)
(* The explicit-frontier traversal of the design notes: a frontier of      *)
(* (identifier, depth) pairs, one Visited Set for the whole query, the     *)
(* frontier processed as a stack or as a queue.  It runs on the graph and  *)
(* whitelist of the query just answered by is_tech_elective.               *)
(***************************************************************************)
\* The course is a key of the prerequisite graph.
GraphKey(c) == ParseCourseCode(c) \in DOMAIN catalog /\ catalog[ParseCourseCode(c)].found

\* Its immediate prerequisites in the graph.
GraphEdges(c) == catalog[ParseCourseCode(c)].prereqs

\* Membership in the whitelist, on normalized identifiers.
InWhitelist(c) == \E p \in acceptable_prerequisites : Upper(p) = Upper(c)

\* The sequences that list the members of S once each.
Orderings(S) == {s \in [1..Cardinality(S) -> S] : \A i, j \in DOMAIN s : i # j => s[i] # s[j]}

\* The prerequisites of c as frontier entries of depth d, in some order.
Pushes(c, d) == {[i \in DOMAIN s |-> [id |-> s[i], depth |-> d]] : s \in Orderings(GraphEdges(c))}

\* Direct match, unknown course, or the traversal starts from the course's
\* immediate prerequisites with an empty Visited Set.
FrontierStart ==
    /\ Done
    /\ order = None
    /\ order' \in {"stack", "queue"}
    /\ fvisited' = {}
    /\ IF InWhitelist(course)
       THEN fresult' = "True" /\ frontier' = <<>>
       ELSE IF ~GraphKey(course)
       THEN fresult' = "False" /\ frontier' = <<>>
       ELSE fresult' = None /\ frontier' \in Pushes(course, 1)
    /\ UNCHANGED <<envVars, queryVars, batchVars, extractVars>>

\* One node is taken from the frontier: skipped if visited, a true verdict
\* if whitelisted, expanded if it is a key of the graph and its depth is
\* strictly less than maxDepth.  An empty frontier is a false verdict.
FrontierStep ==
    /\ order # None
    /\ fresult = None
    /\ order' = order
    /\ IF frontier = <<>>
       THEN fresult' = "False" /\ frontier' = <<>> /\ fvisited' = fvisited
       ELSE LET node == IF order = "stack" THEN frontier[Len(frontier)] ELSE Head(frontier)
                rest == IF order = "stack" THEN SubSeq(frontier, 1, Len(frontier) - 1)
                                           ELSE Tail(frontier)
            IN IF node.id \in fvisited
               THEN fresult' = None /\ frontier' = rest /\ fvisited' = fvisited
               ELSE /\ fvisited' = fvisited \cup {node.id}
                    /\ IF InWhitelist(node.id)
                       THEN fresult' = "True" /\ frontier' = rest
                       ELSE /\ fresult' = None
                            /\ IF GraphKey(node.id) /\ node.depth < max_depth
                               THEN \E push \in Pushes(node.id, node.depth + 1) :
                                        frontier' = rest \o push
                               ELSE frontier' = rest
    /\ UNCHANGED <<envVars, queryVars, batchVars, extractVars>>

NextFrontier ==
    \/ EnterReturn
    \/ EnterFetch
    \/ LoopCall
    \/ LoopExhausted
    \/ LoopResume
    \/ TopReturn
    \/ FrontierStart
    \/ FrontierStep

SpecFrontier == InitGraph /\ [][NextFrontier]_vars

FrontierDone == fresult # None

(***************************************************************************)
(* check_courses_to_json and check_multiple_courses: batches of queries on *)
(* one checker, whose cache lives on from run to run.                      *)
(***************************************************************************)
BatchCourses == {"A", "B"}
MaxBatch == 2
MaxRuns == 2

\* line 126: max_depth: int = 5, the value line 196 leaves to the default
DefaultMaxDepth == 5

\* A returned value: Python's None, or an object.
NoneValue == [none |-> TRUE]
Some(v) == [none |-> FALSE, value |-> v]

\* Lines 190-205: check_multiple_courses fills the local dictionary results
\* and ends without a return statement.
CheckMultipleCoursesReturn(r) == NoneValue

\* Lines 273-326: check_courses_to_json after check_multiple_courses returned.
\* check_output.get('results', {}) and .get('errors', {}) read the keys
\* 'results' and 'errors' of what was returned.
CheckCoursesToJsonReturn(out) ==
    IF out.none THEN NoneValue
    ELSE Some([results |-> IF "results" \in DOMAIN out.value
                           THEN out.value["results"] ELSE <<>>,
               errors |-> IF "errors" \in DOMAIN out.value
                          THEN out.value["errors"] ELSE <<>>])

\* Lines 257-271: check_courses_to_json is called with the course list; an
\* empty list returns None (line 264), otherwise check_multiple_courses
\* starts with an empty dictionary (line 190).
BatchStart ==
    /\ bpc = "idle"
    /\ run < MaxRuns
    /\ run' = run + 1
    /\ idx' = 0
    /\ IF courses = <<>>
       THEN /\ output' = Append(output, NoneValue)
            /\ check_output' = Append(check_output, NoneValue)
            /\ results' = Append(results, <<>>)
            /\ bpc' = "idle"
       ELSE /\ output' = output
            /\ check_output' = check_output
            /\ results' = Append(results, <<>>)
            /\ bpc' = "loop"
    /\ UNCHANGED <<envVars, queryVars, frontierVars, extractVars, courses,
                   failuresAtStart>>

\* One default set object shared by every call that passes no visited set
\* (a default of set() in the signature): what earlier top-level calls added
\* is still in it.
InitialVisitedShared(earlier) == earlier

\* Lines 126 and 140-141: visited defaults to None and a call given no visited
\* set makes a new empty one, whatever earlier calls on the checker added to
\* theirs.
InitialVisited(earlier) == {}

\* The courses check_multiple_courses has passed to is_tech_elective on this
\* checker so far (the keys of the dictionaries filled at line 196).
Queried == UNION {DOMAIN results[r] : r \in DOMAIN results}

\* Line 196, the call: is_tech_elective(course, roster) with no visited set,
\* depth 0 and the default max_depth.
BatchQuery ==
    /\ bpc = "loop"
    /\ idx < Len(courses)
    /\ course' = courses[idx + 1]
    /\ max_depth' = DefaultMaxDepth
    /\ stack' = <<Frame(courses[idx + 1], InitialVisited(Queried), 0)>>
    /\ ret' = None
    /\ result' = None
    /\ calls' = 0
    /\ fetched' = {}
    /\ bpc' = "query"
    /\ failuresAtStart' = failuresLeft
    /\ UNCHANGED <<envVars, frontierVars, extractVars, cache, raised, failuresLeft,
                   courses, idx, run, results, check_output, output>>

\* Line 196, the assignment: results[course] = the verdict.
BatchAssign ==
    /\ bpc = "query"
    /\ Done
    /\ results' = [results EXCEPT ![run] = (course :> result) @@ @]
    /\ idx' = idx + 1
    /\ result' = None
    /\ bpc' = "loop"
    /\ UNCHANGED <<envVars, frontierVars, extractVars, cache, course, max_depth,
                   stack, ret, calls, fetched, raised, failuresLeft,
                   courses, run, check_output, output, failuresAtStart>>

\* Line 205 on: the loop is over, check_multiple_courses returns, and
\* check_courses_to_json goes on from line 273 to its own return.
BatchReturn ==
    /\ bpc = "loop"
    /\ idx = Len(courses)
    /\ check_output' = Append(check_output, CheckMultipleCoursesReturn(results[run]))
    /\ output' = Append(output,
                        CheckCoursesToJsonReturn(CheckMultipleCoursesReturn(results[run])))
    /\ bpc' = "idle"
    /\ UNCHANGED <<envVars, queryVars, frontierVars, extractVars,
                   courses, idx, run, results, failuresAtStart>>

CourseLists == UNION {[1..n -> BatchCourses] : n \in 0..MaxBatch}

InitBatch ==
    /\ catalog \in Catalogs(BatchCourses)
    /\ acceptable_prerequisites \in SUBSET BatchCourses
    /\ cache = {}
    /\ course = None
    /\ max_depth = DefaultMaxDepth
    /\ stack = <<>>
    /\ ret = None
    /\ result = None
    /\ calls = 0
    /\ fetched = {}
    /\ raised = FALSE
    /\ failuresLeft = MaxFailures
    /\ courses \in CourseLists
    /\ idx = 0
    /\ run = 0
    /\ results = <<>>
    /\ check_output = <<>>
    /\ output = <<>>
    /\ bpc = "idle"
    /\ failuresAtStart = MaxFailures
    /\ FrontierIdle
    /\ ExtractIdle

NextBatch ==
    \/ BatchStart
    \/ BatchQuery
    \/ EnterReturn
    \/ EnterFetch
    \/ EnterFetchRaises
    \/ LoopCall
    \/ LoopExhausted
    \/ LoopResume
    \/ TopReturn
    \/ BatchAssign
    \/ BatchReturn

SpecBatch == InitBatch /\ [][NextBatch]_vars

\* The run-th call of check_courses_to_json has returned.
BatchDone(r) == r < run \/ (r = run /\ bpc = "idle")

(***************************************************************************)
(* _extract_prerequisites on a raw course record, and the field fallback   *)
(* of getclasses.py on the same record.  A text is a sequence of           *)
(* characters; a field of the record is absent, null, or a text.           *)
(***************************************************************************)
MaxTextLen == 4

UpperLetters == <<"A", "B", "C", "D", "E", "F", "G", "H", "I", "J", "K", "L", "M",
                  "N", "O", "P", "Q", "R", "S", "T", "U", "V", "W", "X", "Y", "Z">>
LowerLetters == <<"a", "b", "c", "d", "e", "f", "g", "h", "i", "j", "k", "l", "m",
                  "n", "o", "p", "q", "r", "s", "t", "u", "v", "w", "x", "y", "z">>
Range(q) == {q[i] : i \in DOMAIN q}

\* [A-Z], \d and \s of the pattern at line 117.
IsLetter == Range(UpperLetters)
IsDigit == {"0", "1", "2", "3", "4", "5", "6", "7", "8", "9"}
IsSpace == {" ", "\t", "\n"}

\* str.upper(), line 118.
UpperChar(ch) ==
    IF ch \in Range(LowerLetters)
    THEN UpperLetters[CHOOSE i \in DOMAIN LowerLetters : LowerLetters[i] = ch]
    ELSE ch
UpperText(t) == [i \in DOMAIN t |-> UpperChar(t[i])]

\* The first position from i on whose character is not in class.
RECURSIVE SkipClass(_, _, _)
SkipClass(t, i, class) ==
    IF i <= Len(t) /\ t[i] \in class THEN SkipClass(t, i + 1, class) ELSE i

\* re.findall(r'([A-Z]+)\s*(\d+)', t) from position i on, as the set of
\* (subject, number) pairs lines 120-121 add.  A match at i takes the whole
\* run of letters, then the whole run of white space, then the whole run of
\* digits, which must not be empty; giving back letters or white space never
\* helps, since the character then met is a letter or white space and not a
\* digit.  The search goes on after a match, or at i + 1.
RECURSIVE FindAll(_, _)
FindAll(t, i) ==
    IF i > Len(t) THEN {}
    ELSE IF t[i] \notin IsLetter THEN FindAll(t, i + 1)
    ELSE LET j == SkipClass(t, i, IsLetter)
             k == SkipClass(t, j, IsSpace)
             m == SkipClass(t, k, IsDigit)
         IN IF m > k
            THEN {<<SubSeq(t, i, j - 1), SubSeq(t, k, m - 1)>>} \cup FindAll(t, m)
            ELSE FindAll(t, i + 1)

\* A field of a raw record.
Absent == [kind |-> "absent", text |-> <<>>]
Null == [kind |-> "null", text |-> <<>>]
Text(t) == [kind |-> "text", text |-> t]

\* dict.get(field, ''): the field's value, '' when the key is absent.
GetOrEmpty(v) == IF v.kind = "absent" THEN Text(<<>>) ELSE v

\* Python's truth value of a field's value: None and '' are false.
Truthy(v) == v.kind = "text" /\ v.text # <<>>

\* Lines 104-107: year = int(roster[2:4]), is_fall = roster.startswith('FA'),
\* and the test that selects the split field.
UsesSplitField(r) == r.year > 25 \/ (r.year = 25 /\ r.term = "FA")

\* Lines 107-110: the field _extract_prerequisites reads.
SelectedText(data, r) ==
    IF UsesSplitField(r) THEN GetOrEmpty(data.catalogPrereq)
    ELSE GetOrEmpty(data.catalogPrereqCoreq)

\* Lines 112-123.
ExtractedSet(v) == IF ~Truthy(v) THEN {} ELSE FindAll(UpperText(v.text), 1)

\* _extract_prerequisites(course_data, roster), lines 99-123.
ExtractPrerequisites ==
    /\ epc = "call"
    /\ prereq_text' = SelectedText(course_data, roster)
    /\ prerequisites' = ExtractedSet(SelectedText(course_data, roster))
    /\ epc' = "done"
    /\ UNCHANGED <<envVars, queryVars, frontierVars, batchVars,
                   roster, course_data, listed, gpc>>

\* getclasses.py lines 32-36: cls.get("catalogPrereq") or
\* cls.get("catalogPrereqCoreq") or "None specified".
FallbackText(data) ==
    IF Truthy(data.catalogPrereq) THEN data.catalogPrereq
    ELSE IF Truthy(data.catalogPrereqCoreq) THEN data.catalogPrereqCoreq
    ELSE Text(<<"N", "o", "n", "e", " ", "s", "p", "e", "c", "i", "f", "i", "e", "d">>)

\* getclasses.py lines 27-42, for one record of the subject.
GetclassesRecord ==
    /\ gpc = "call"
    /\ listed' = FallbackText(course_data)
    /\ gpc' = "done"
    /\ UNCHANGED <<envVars, queryVars, frontierVars, batchVars,
                   roster, course_data, prereq_text, prerequisites, epc>>

\* "Prerequisite: CS 2110 or INFO/CS 2300"
ExampleText ==
    <<"P", "r", "e", "r", "e", "q", "u", "i", "s", "i", "t", "e", ":", " ",
      "C", "S", " ", "2", "1", "1", "0", " ", "o", "r", " ",
      "I", "N", "F", "O", "/", "C", "S", " ", "2", "3", "0", "0">>

\* "CS 2110"
LegacyExample == <<"C", "S", " ", "2", "1", "1", "0">>

TextAlphabet == {"c", "S", "2", " ", "/"}
Texts == UNION {[1..n -> TextAlphabet] : n \in 0..MaxTextLen}
Rosters == [term : {"FA", "SP", "SU", "WI"}, year : {24, 25, 26}]

InitExtract ==
    /\ roster \in Rosters
    /\ course_data \in
         [catalogPrereq : {Absent, Null} \cup {Text(t) : t \in Texts \cup {ExampleText}},
          catalogPrereqCoreq : {Absent, Null, Text(<<>>), Text(LegacyExample)}]
    /\ prereq_text = None
    /\ prerequisites = {}
    /\ epc = "call"
    /\ listed = None
    /\ gpc = "call"
    /\ catalog = <<>>
    /\ acceptable_prerequisites = {}
    /\ cache = {}
    /\ course = None
    /\ max_depth = DefaultMaxDepth
    /\ stack = <<>>
    /\ ret = None
    /\ result = None
    /\ calls = 0
    /\ fetched = {}
    /\ raised = FALSE
    /\ failuresLeft = 0
    /\ FrontierIdle
    /\ BatchIdle

NextExtract ==
    \/ ExtractPrerequisites
    \/ GetclassesRecord

SpecExtract == InitExtract /\ [][NextExtract]_vars

(***************************************************************************)
(* Reference notions the properties are stated with.                       *)
(***************************************************************************)
\* The prerequisite edges of a course: those of its catalog record, if any.
Edges(c) == Lookup(ParseCourseCode(c)).prereqs

\* Membership in the whitelist, up to letter case.
Whitelisted(c) == \E p \in acceptable_prerequisites : Upper(p) = Upper(c)

\* Bounded reachability: c is whitelisted, or a whitelisted course lies at
\* most k prerequisite edges from c.
RECURSIVE ReachWithin(_, _)
ReachWithin(c, k) ==
    \/ Whitelisted(c)
    \/ k > 0 /\ \E p \in Edges(c) : ReachWithin(p, k - 1)

Universe == DOMAIN catalog
Reachable(c) == ReachableIn(catalog, ParseCourseCode(c))

\* Some course reachable from c lies on a cycle.
OnCycle(c) == \E p \in Edges(c) : c \in Reachable(p)
CycleFrom(c) == \E d \in Reachable(c) : OnCycle(d)

\* The number of edges of the simple chain from c to w, each course on it but
\* w having exactly one prerequisite; -1 when there is no such chain.
RECURSIVE Hops(_, _, _)
Hops(c, w, seen) ==
    IF c = w THEN 0
    ELSE IF c \in seen \/ Cardinality(Edges(c)) # 1 THEN -1
    ELSE LET h == Hops(CHOOSE p \in Edges(c) : TRUE, w, seen \cup {c})
         IN IF h = -1 THEN -1 ELSE h + 1

\* A simple chain of k prerequisite edges from c to the only whitelisted course.
IsChain(c, k) ==
    \E w \in acceptable_prerequisites :
        /\ acceptable_prerequisites = {w}
        /\ Hops(c, w, {}) = k

\* The most calls a query can make: a call at depth d <= max_depth makes at
\* most one call per course, and a call beyond max_depth makes none.
RECURSIVE CallBound(_, _)
CallBound(n, d) == IF d = 0 THEN 1 ELSE 1 + n * CallBound(n, d - 1)

(***************************************************************************)
(* C1 Depth bound: on a simple chain of k prerequisite edges from the      *)
(* queried course to the only whitelisted course, the query returns True   *)
(* exactly when k <= max_depth.                                            *)
(***************************************************************************)
C1_DepthBound ==
    \A k \in 1..(Cardinality(Universe) - 1) :
        (Done /\ IsChain(course, k)) => result = Bool(k <= max_depth)

\* A -> B -> C -> D with only D whitelisted: True with max_depth = 3.
C1_Witness ==
    /\ Done
    /\ IsChain(course, 3)
    /\ max_depth = 3
    /\ result = "True"

\* The same chain with max_depth = 2 is answered False.
C1_WitnessShallow ==
    /\ Done
    /\ IsChain(course, 3)
    /\ max_depth = 2
    /\ result = "False"

(***************************************************************************)
(* C2 Cycle termination: when a cycle is reachable from the queried course *)
(* and no reachable course is whitelisted, the query ends, returns False,  *)
(* and makes at most CallBound calls.                                      *)
(***************************************************************************)
CycleNoWhitelist ==
    /\ CycleFrom(course)
    /\ \A d \in Reachable(course) : ~Whitelisted(d)

\* The queries the property is about.  The program runs on: a step that can
\* be taken is taken.
InitCycle == Init /\ CycleNoWhitelist

SpecCycle == InitCycle /\ [][Next]_vars /\ WF_vars(Next)

C2_CycleTermination ==
    /\ [](CycleNoWhitelist =>
            /\ calls <= CallBound(Cardinality(Universe), max_depth + 1)
            /\ Done => result = "False")
    /\ (CycleNoWhitelist ~> Done)

\* A -> B -> A was walked: the call on A inside the cycle was made.
C2_Witness ==
    /\ Done
    /\ CycleNoWhitelist
    /\ "B" \in Edges("A") /\ "A" \in Edges("B")
    /\ course = "A"
    /\ calls >= 3
    /\ result = "False"

(***************************************************************************)
(* C3 Direct match: a top-level query for a member of the whitelist        *)
(* returns True whatever the catalog holds, in one call, and fetches no    *)
(* course data.                                                            *)
(***************************************************************************)
C3_DirectMatch ==
    (Done /\ course \in acceptable_prerequisites) =>
        /\ result = "True"
        /\ fetched = {}
        /\ cache = {}
        /\ calls = 1

\* A whitelisted course the catalog has no record of.
C3_Witness ==
    /\ Done
    /\ course \in acceptable_prerequisites
    /\ ~Lookup(ParseCourseCode(course)).found
    /\ result = "True"

(***************************************************************************)
(* C4 Unknown course: a query for a course that is not whitelisted and has *)
(* no course data returns False; a prerequisite without course data is a   *)
(* dead end (no call iterates prerequisites of it); and every call returns *)
(* True or False, also when a request raises.                              *)
(***************************************************************************)
C4_UnknownCourse ==
    /\ ret \in {None, "True", "False"}
    /\ result \in {None, "True", "False"}
    /\ (Done /\ ~Whitelisted(course) /\ ~Lookup(ParseCourseCode(course)).found)
          => result = "False"
    /\ \A i \in 1..Len(stack) :
          stack[i].pc = "loop" => Lookup(ParseCourseCode(stack[i].course)).found

\* An unknown prerequisite was met below a known course, and a request raised.
C4_Witness ==
    /\ Done
    /\ result = "False"
    /\ raised
    /\ ~Whitelisted(course)
    /\ \E p \in Edges(course) : p \in cache /\ ~Lookup(p).found

(***************************************************************************)
(* C5 Order independence: whatever order the prerequisite sets iterate in, *)
(* the verdict is that of bounded reachability: True exactly when the      *)
(* course is whitelisted or a whitelisted course lies within max_depth     *)
(* prerequisite edges of it.                                               *)
(***************************************************************************)
C5_OrderIndependence ==
    Done => result = Bool(ReachWithin(course, max_depth))

\* A course with two prerequisites, only one of which leads to the whitelist,
\* answered True after the other one was tried first.
C5_Witness ==
    /\ Done
    /\ result = "True"
    /\ Cardinality(Edges(course)) = 2
    /\ \E p \in Edges(course) : ~ReachWithin(p, max_depth) /\ p \in fetched
    /\ ~Whitelisted(course)
(***************************************************************************)
(* C10 Visited-set strategies, as stated: the recursive traversal and the  *)
(* explicit-frontier traversal with one shared Visited Set return the same *)
(* verdict, whether the frontier is a stack or a queue.                    *)
(***************************************************************************)
C10_SameVerdict ==
    (Done /\ FrontierDone) => fresult = result

(***************************************************************************)
(* C10 as amended: for max_depth >= 1 the two return the same verdict when *)
(* the frontier is a queue; when it is a stack, a true verdict of the      *)
(* frontier traversal is a true verdict of the recursive one.              *)
(***************************************************************************)
C10_QueueSameVerdict ==
    (Done /\ FrontierDone /\ max_depth >= 1) =>
        /\ order = "queue" => fresult = result
        /\ (order = "stack" /\ fresult = "True") => result = "True"

(***************************************************************************)
(* C10, the stack alone: with max_depth >= 1 and the frontier a stack the  *)
(* two return the same verdict.  (Fails on the graph Diamond below with    *)
(* max_depth = 2: C is first met behind B at depth 2, marked visited and   *)
(* not expanded, and skipped when met again at depth 1.)                   *)
(***************************************************************************)
C10_StackSameVerdict ==
    (Done /\ FrontierDone /\ max_depth >= 1 /\ order = "stack") => fresult = result

\* A -> {B, C}, B -> {C}, C -> {D}, only D whitelisted.
Diamond ==
    /\ catalog = [c \in GraphCourses |->
                    Data(CASE c = "A" -> {"B", "C"} [] c = "B" -> {"C"}
                           [] c = "C" -> {"D"} [] OTHER -> {})]
    /\ acceptable_prerequisites = {"D"}

\* The queue found D two edges from A although C was also met behind B.
C10_Witness ==
    /\ Done
    /\ FrontierDone
    /\ Diamond
    /\ max_depth = 2
    /\ order = "queue"
    /\ fvisited = {"B", "C", "D"}
    /\ result = "True"
    /\ fresult = "True"
(***************************************************************************)
(* C6 Batch idempotence: two runs of the batch on one checker, with the    *)
(* same course list, catalog and whitelist, fill in the same per-course    *)
(* flags, also when a request raised in one of the runs.                   *)
(***************************************************************************)
C6_BatchIdempotent ==
    (BatchDone(1) /\ BatchDone(2)) => results[1] = results[2]

(***************************************************************************)
(* C6 with no request raising: the two runs fill in the same flags.        *)
(***************************************************************************)
C6_IdempotentUnlessRaised ==
    (BatchDone(1) /\ BatchDone(2) /\ ~raised) => results[1] = results[2]

(***************************************************************************)
(* C7 Batch result: check_multiple_courses returns the dictionary mapping  *)
(* every course of the list to its verdict, and check_courses_to_json,     *)
(* called with a non-empty list, returns a result dictionary and not None. *)
(***************************************************************************)
C7_BatchResult ==
    \A r \in 1..MaxRuns :
        (BatchDone(r) /\ courses # <<>>) =>
            /\ check_output[r] = Some(results[r])
            /\ ~output[r].none
(***************************************************************************)
(* C8 Prerequisite field fallback: the text _extract_prerequisites uses is *)
(* the split field catalogPrereq when it carries text, and the combined    *)
(* field catalogPrereqCoreq when only that one does; so a record carrying  *)
(* text in either field is read from a field that carries text, as         *)
(* getclasses.py reads it.                                                 *)
(***************************************************************************)
C8_FieldFallback ==
    (epc = "done" /\ gpc = "done") =>
        /\ Truthy(course_data.catalogPrereq) => prereq_text = course_data.catalogPrereq
        /\ (~Truthy(course_data.catalogPrereq) /\ Truthy(course_data.catalogPrereqCoreq))
              => prereq_text = course_data.catalogPrereqCoreq
        /\ (Truthy(course_data.catalogPrereq) \/ Truthy(course_data.catalogPrereqCoreq))
              => (prereq_text = listed /\ prerequisites = FindAll(UpperText(listed.text), 1))

(***************************************************************************)
(* C8 for getclasses.py alone: its entry is the split field when that      *)
(* carries text, else the combined field when that carries text.           *)
(***************************************************************************)
C8_GetclassesFallback ==
    gpc = "done" =>
        /\ Truthy(course_data.catalogPrereq) => listed = course_data.catalogPrereq
        /\ (~Truthy(course_data.catalogPrereq) /\ Truthy(course_data.catalogPrereqCoreq))
              => listed = course_data.catalogPrereqCoreq

(***************************************************************************)
(* C9 Shared-subject extraction: from text holding SUBJECT1/SUBJECT2       *)
(* NUMBER both (SUBJECT1, NUMBER) and (SUBJECT2, NUMBER) are extracted;    *)
(* the example text yields exactly CS 2110, INFO 2300 and CS 2300; empty   *)
(* or null text yields the empty set.                                      *)
(***************************************************************************)
\* The pairs the shorthand SUBJECT1/SUBJECT2 NUMBER stands for in t.
ShorthandPairs(t) ==
    UNION {LET j == SkipClass(t, i, IsLetter)
               k == SkipClass(t, j + 1, IsLetter)
               m == SkipClass(t, k, IsSpace)
               n == SkipClass(t, m, IsDigit)
           IN IF /\ t[i] \in IsLetter
                 /\ (i = 1 \/ t[i - 1] \notin IsLetter)
                 /\ j <= Len(t) /\ t[j] = "/"
                 /\ k > j + 1
                 /\ n > m
              THEN {<<SubSeq(t, i, j - 1), SubSeq(t, m, n - 1)>>,
                    <<SubSeq(t, j + 1, k - 1), SubSeq(t, m, n - 1)>>}
              ELSE {} : i \in DOMAIN t}

ExampleCodes ==
    {<<<<"C", "S">>, <<"2", "1", "1", "0">>>>,
     <<<<"I", "N", "F", "O">>, <<"2", "3", "0", "0">>>>,
     <<<<"C", "S">>, <<"2", "3", "0", "0">>>>}

C9_SharedSubject ==
    epc = "done" =>
        /\ ~Truthy(prereq_text) => prerequisites = {}
        /\ Truthy(prereq_text) =>
              ShorthandPairs(UpperText(prereq_text.text)) \subseteq prerequisites
        /\ (Truthy(prereq_text) /\ prereq_text.text = ExampleText)
              => prerequisites = ExampleCodes

(***************************************************************************)
(* C9, the part that holds: empty or null text yields the empty set.       *)
(***************************************************************************)
C9_EmptyText ==
    (epc = "done" /\ ~Truthy(prereq_text)) => prerequisites = {}

(***************************************************************************)
(* C11 Visited-set scoping: every top-level is_tech_elective query starts  *)
(* with an empty visited set, so in a batch on a checker that has answered *)
(* earlier queries the visited set of every active call holds exactly the  *)
(* courses of the calls it is nested in (its own from line 155 on), never  *)
(* a course of an earlier query; and the verdict of a query whose requests *)
(* were all answered equals the verdict of that query on a fresh checker   *)
(* over the same catalog, bounded reachability within max_depth (C5).  A   *)
(* request that raised can only turn a True verdict into False.            *)
(***************************************************************************)
OnCallChain(i) ==
    {stack[j].course : j \in 1..(i - 1)}
        \cup (IF stack[i].pc = "loop" THEN {stack[i].course} ELSE {})

AllAnswered == failuresLeft = failuresAtStart

FreshVerdict(c) == Bool(ReachWithin(c, max_depth))

C11_VisitedScoping ==
    bpc = "query" =>
        /\ \A i \in DOMAIN stack : stack[i].visited = OnCallChain(i)
        /\ (Done /\ AllAnswered) => result = FreshVerdict(course)
        /\ (Done /\ result = "True") => FreshVerdict(course) = "True"

\* A later query on a course an earlier query of the same checker visited and
\* fetched: it is not taken for visited, and the verdict is True.
C11_Witness ==
    /\ bpc = "query"
    /\ Done
    /\ AllAnswered
    /\ course \in Queried
    /\ ~Whitelisted(course)
    /\ result = "True"

\* A later query that closes a cycle through a course of an earlier query.
C11_WitnessCycle ==
    /\ bpc = "query"
    /\ Done
    /\ AllAnswered
    /\ idx >= 1
    /\ course # courses[1]
    /\ course \in Edges(courses[1])
    /\ courses[1] \in Edges(course)
    /\ result = "False"

(***************************************************************************)
(* C11 without the condition on requests: a request that raises during the *)
(* later query makes its verdict False where the fresh checker, its        *)
(* requests answered, says True (the divergence of C6).                    *)
(***************************************************************************)
C11_FreshVerdictAlways ==
    (bpc = "query" /\ Done) => result = FreshVerdict(course)
====
